---- MODULE Spec2Model ----
(***************************************************************************)
(* yopt: the command-line tokenizer of include/yopt.h (class options) and  *)
(* its accessors, for CharT = char.                                        *)
(*                                                                         *)
(* Buffers are numbered: the command-string constructor scans buffer 0     *)
(* (cmd_line), the argv constructor scans buffers 1 .. argc-1 (argv[i]).   *)
(* A pointer into a buffer is its 0-based offset; a string_view is a       *)
(* record [buf, b, e] for the half-open range [b, e) of buffer buf.        *)
(* The characters of a buffer are the program's input: mem[s] holds the    *)
(* characters of buffer s the scanner has read so far, each drawn from     *)
(* Chars or NUL in the iteration that first reads it.                      *)
(***************************************************************************)
EXTENDS Integers, Sequences, FiniteSets, TLC

\* YOPT_CMD_MAX_LENGTH, scaled down from 4096 so that the bound is reached.
max_length == 8
\* total number of characters, terminators included, of argv[1 .. argc-1]
MaxArgvChars == 6
\* number of words of an input made of words
MaxWords == 2

NUL == "NUL"
Chars == {" ", "-", "=", "\"", "1"}

VARIABLES
  ctor,          \* which constructor runs: "argv" or "cmd"
  argc,          \* options(int argc, ...)
  family,        \* the inputs the characters are drawn from: "any" or "words"
  ret,           \* the last accessor call on the constructed object and its result
  mem,           \* mem[s]: characters of buffer s read so far
  ps_at,         \* ps_at[s]: parse state in which each character of s was read
  pc,            \* "start", "loop", "parse", "done"
  i,             \* loop variable of the argv constructor
  s,             \* parse: the buffer being scanned
  single_value,  \* parse: second parameter
  ps,            \* parse: parse_state
  c,             \* parse: scan pointer
  token_start,   \* parse: start of the token in progress
  key,           \* parse: pending key (a view)
  len,           \* parse: number of characters examined
  a,             \* options::a, free standing values
  opts           \* options::opts, a set of [key, val] entries, keys unique by content

vars == <<ctor, argc, family, ret, mem, ps_at, pc, i, s, single_value, ps, c,
          token_start, key, len, a, opts>>

\* every argv element holds at least its terminator
MaxArgc == MaxArgvChars + 1

Buffers == 0 .. MaxArgc

(* ---------------- string views ---------------- *)

\* std::basic_string_view{first, last}
View(buf, first, last) == [buf |-> buf, b |-> first, e |-> last]

\* a default constructed string_view: size 0
NoView == [buf |-> -1, b |-> 0, e |-> 0]

\* string_view::size
Size(v) == v.e - v.b

\* the characters a view denotes
Text(v) == IF v.e <= v.b THEN << >> ELSE SubSeq(mem[v.buf], v.b + 1, v.e)

(* ---------------- character classes ---------------- *)

\* mutant of is_eol: the terminator is not recognised
is_eol_Never(ch) == FALSE

is_eol(ch) == ch = NUL

is_whitespace(ch) == ch \in {" ", "\t", "\r", "\n"}

is_dash(ch) == ch = "-"

is_quote(ch) == ch = "\""

is_equal_sign(ch) == ch = "="

(* ---------------- std::map<string_view, string_view> ---------------- *)

\* opts.find(k): the entries whose key compares equal to k (at most one)
Find(o, k) == {en \in o : Text(en.key) = k}

\* opts[k]; inserts a default constructed value when k is absent, and leaves
\* a present entry as it is
OptsTouch(o, k) ==
  IF Find(o, Text(k)) # {} THEN o ELSE o \cup {[key |-> k, val |-> NoView]}

\* opts[k] = v; the entry keeps the key it was inserted with
OptsAssign(o, k, v) ==
  IF Find(o, Text(k)) # {}
  THEN {IF Text(en.key) = Text(k) THEN [en EXCEPT !.val = v] ELSE en : en \in o}
  ELSE o \cup {[key |-> k, val |-> v]}

\* mutant of EmplaceBack: the new element is put in front
EmplaceBack_AtFront(args, v) == <<v>> \o args

\* a.emplace_back(first, last)
EmplaceBack(args, v) == Append(args, v)

(* ---------------- options::parse ---------------- *)

\* the locals of parse and the two containers, as one iteration sees them
Cur == [ps |-> ps, token_start |-> token_start, key |-> key, a |-> a, opts |-> opts]

\* mutant of QuotedView: the opening quote is kept
QuotedView_KeepsQuote(ts, cc) == View(s, ts, cc)

\* the span stored for a quoted token: the opening quote is left out
QuotedView(ts, cc) == View(s, ts + 1, cc)

\* mutant of TokenView: the span takes in the character that ends the token
TokenView_PastEnd(ts, cc) == View(s, ts, cc + 1)

\* the span stored for an unquoted token or a key
TokenView(ts, cc) == View(s, ts, cc)

\* store a finished value: under the pending key, or as a free standing value
StoreValue(st, v) ==
  IF Size(st.key) > 0
  THEN [st EXCEPT !.opts = OptsAssign(st.opts, st.key, v)]
  ELSE [st EXCEPT !.a = EmplaceBack(st.a, v)]

\* case parse_state::none
SwitchNone(st, ch) ==
  IF is_whitespace(ch) THEN st
  ELSE IF is_dash(ch)
  THEN [st EXCEPT !.ps = "key_prefix",
                  !.opts = IF Size(st.key) > 0 THEN OptsTouch(st.opts, st.key) ELSE @]
  ELSE IF is_quote(ch)
  THEN [st EXCEPT !.ps = "quoted_value", !.token_start = c]
  ELSE [st EXCEPT !.ps = "value", !.token_start = c]

\* case parse_state::key_prefix
SwitchKeyPrefix(st, ch) ==
  IF is_dash(ch) THEN [st EXCEPT !.ps = "long_key_prefix"]
  ELSE IF is_whitespace(ch) THEN [st EXCEPT !.ps = "none"]
  ELSE [st EXCEPT !.ps = "key", !.token_start = c]

\* case parse_state::long_key_prefix
SwitchLongKeyPrefix(st, ch) ==
  IF is_whitespace(ch) THEN [st EXCEPT !.ps = "none"]
  ELSE [st EXCEPT !.ps = "key", !.token_start = c]

\* mutant of SwitchKey: the value token starts at the equal sign
SwitchKey_ValueAtEqualSign(st, ch) ==
  IF is_whitespace(ch)
  THEN [st EXCEPT !.ps = "none",
                  !.opts = IF c > st.token_start
                           THEN OptsTouch(st.opts, TokenView(st.token_start, c))
                           ELSE @]
  ELSE IF is_equal_sign(ch)
  THEN [st EXCEPT !.ps = "value",
                  !.key = TokenView(st.token_start, c),
                  !.token_start = c]
  ELSE st

\* case parse_state::key
SwitchKey(st, ch) ==
  IF is_whitespace(ch)
  THEN [st EXCEPT !.ps = "none",
                  !.opts = IF c > st.token_start
                           THEN OptsTouch(st.opts, TokenView(st.token_start, c))
                           ELSE @]
  ELSE IF is_equal_sign(ch)
  THEN [st EXCEPT !.ps = "value",
                  !.key = TokenView(st.token_start, c),
                  !.token_start = c + 1]
  ELSE st

\* mutant of SwitchValue: whitespace ends the value in single-value mode too
SwitchValue_IgnoresMode(st, ch) ==
  IF is_quote(ch) /\ st.token_start = c
  THEN [st EXCEPT !.ps = "quoted_value"]
  ELSE IF is_whitespace(ch)
  THEN [StoreValue(st, TokenView(st.token_start, c))
          EXCEPT !.ps = "none", !.key = NoView]
  ELSE st

\* case parse_state::value
SwitchValue(st, ch) ==
  IF is_quote(ch) /\ st.token_start = c
  THEN [st EXCEPT !.ps = "quoted_value"]
  ELSE IF is_whitespace(ch) /\ ~single_value
  THEN [StoreValue(st, TokenView(st.token_start, c))
          EXCEPT !.ps = "none", !.key = NoView]
  ELSE st

\* mutant of SwitchQuotedValue: the closing quote does not reset the pending key
SwitchQuotedValue_KeepsKey(st, ch) ==
  IF is_quote(ch)
  THEN [StoreValue(st, QuotedView(st.token_start, c)) EXCEPT !.ps = "none"]
  ELSE st

\* case parse_state::quoted_value
SwitchQuotedValue(st, ch) ==
  IF is_quote(ch)
  THEN [StoreValue(st, QuotedView(st.token_start, c))
          EXCEPT !.ps = "none", !.key = NoView]
  ELSE st

\* mutant of Flush: a key in progress at the terminator is not recorded
Flush_DropsKey(st) ==
  IF st.ps = "value"
  THEN IF Size(st.key) > 0
       THEN [st EXCEPT !.opts = OptsAssign(st.opts, st.key, TokenView(st.token_start, c))]
       ELSE IF c > st.token_start
       THEN [st EXCEPT !.a = EmplaceBack(st.a, TokenView(st.token_start, c))]
       ELSE st
  ELSE IF st.ps = "quoted_value"
  THEN StoreValue(st, QuotedView(st.token_start, c))
  ELSE st

\* mutant of Flush: a key in progress at the terminator is recorded even when
\* it is empty
Flush_EmptyKey(st) ==
  IF st.ps = "key"
  THEN [st EXCEPT !.key = TokenView(st.token_start, c),
                  !.opts = OptsTouch(st.opts, TokenView(st.token_start, c))]
  ELSE IF st.ps = "value"
  THEN IF Size(st.key) > 0
       THEN [st EXCEPT !.opts = OptsAssign(st.opts, st.key, TokenView(st.token_start, c))]
       ELSE IF c > st.token_start
       THEN [st EXCEPT !.a = EmplaceBack(st.a, TokenView(st.token_start, c))]
       ELSE st
  ELSE IF st.ps = "quoted_value"
  THEN StoreValue(st, QuotedView(st.token_start, c))
  ELSE st

\* mutant of Flush: a free standing value in progress at the terminator is
\* appended even when it is empty
Flush_KeepsEmpty(st) ==
  IF st.ps = "key" /\ st.token_start < c
  THEN [st EXCEPT !.key = TokenView(st.token_start, c),
                  !.opts = OptsTouch(st.opts, TokenView(st.token_start, c))]
  ELSE IF st.ps = "value"
  THEN IF Size(st.key) > 0
       THEN [st EXCEPT !.opts = OptsAssign(st.opts, st.key, TokenView(st.token_start, c))]
       ELSE [st EXCEPT !.a = EmplaceBack(st.a, TokenView(st.token_start, c))]
  ELSE IF st.ps = "quoted_value"
  THEN StoreValue(st, QuotedView(st.token_start, c))
  ELSE st

\* if (is_eol(*c)) { handle trailing tokens }
Flush(st) ==
  IF st.ps = "key" /\ st.token_start < c
  THEN [st EXCEPT !.key = TokenView(st.token_start, c),
                  !.opts = OptsTouch(st.opts, TokenView(st.token_start, c))]
  ELSE IF st.ps = "value"
  THEN IF Size(st.key) > 0
       THEN [st EXCEPT !.opts = OptsAssign(st.opts, st.key, TokenView(st.token_start, c))]
       ELSE IF c > st.token_start
       THEN [st EXCEPT !.a = EmplaceBack(st.a, TokenView(st.token_start, c))]
       ELSE st
  ELSE IF st.ps = "quoted_value"
  THEN StoreValue(st, QuotedView(st.token_start, c))
  ELSE st

\* number of characters read so far from buffers 0 .. b
RECURSIVE CharsRead(_)
CharsRead(b) == IF b < 0 THEN 0 ELSE Len(mem[b]) + CharsRead(b - 1)

(* ---------------- inputs made of words ---------------- *)

\* the values written after -k= : the literals get_bool knows, the empty
\* value, and values it does not know
KValues ==
  {<< >>,
   <<"T", "R", "U", "E">>, <<"t", "r", "u", "e">>, <<"T">>,
   <<"Y", "E", "S">>, <<"y", "e", "s">>, <<"Y">>, <<"y">>, <<"1">>,
   <<"F", "A", "L", "S", "E">>, <<"f", "a", "l", "s", "e">>, <<"F">>,
   <<"N", "O">>, <<"n", "o">>, <<"N">>, <<"n">>, <<"0">>,
   <<"T", "r", "u", "e">>, <<"t">>, <<"f">>, <<"o", "n">>, <<"2">>}

\* the values written after -t=
TValues == {<<"4", "2">>, <<"-", "7">>, <<"4", "x">>}

\* the words that follow the first word of an input made of words: -t=<value>,
\* the flags --u and -k, the free standing values p, "q" and "", and the
\* empty word
LaterWords ==
  {<<"-", "t", "=">> \o v : v \in TValues}
  \cup {<<"-", "-", "u">>, <<"-", "k">>, <<"p">>, <<"\"", "q", "\"">>,
        <<"\"", "\"">>, << >>}

\* the first word can also be -k=<value>
Words == {<<"-", "k", "=">> \o v : v \in KValues} \cup LaterWords

WordChars == UNION {{w[q] : q \in 1 .. Len(w)} : w \in Words}

IsPrefix(x, y) == Len(x) <= Len(y) /\ SubSeq(y, 1, Len(x)) = x

\* the position after the last blank of txt[1 .. q]
RECURSIVE WordStart(_, _)
WordStart(txt, q) ==
  IF q = 0 \/ txt[q] = " " THEN q + 1 ELSE WordStart(txt, q - 1)

\* the word in progress: a whole argv element, or what follows the last
\* blank of the command string
CurWord == SubSeq(mem[s], WordStart(mem[s], Len(mem[s])), Len(mem[s]))

Blanks(txt) == Cardinality({q \in 1 .. Len(txt) : txt[q] = " "})

\* what *c can be in an input made of words: the next character of a word,
\* and after a whole word the terminator or, in a command string of fewer
\* than MaxWords words, a blank
ReadableWords ==
  LET first == IF ctor = "cmd" THEN Blanks(mem[s]) = 0 ELSE s = 1
      ws == IF first THEN Words ELSE LaterWords
  IN {ch \in WordChars : \E w \in ws : IsPrefix(Append(CurWord, ch), w)}
     \cup (IF CurWord \in ws
           THEN {NUL} \cup (IF ctor = "cmd" /\ Blanks(mem[s]) + 1 < MaxWords
                            THEN {" "} ELSE {})
           ELSE {})

\* what *c can be when it is first read: any character or the terminator. The
\* elements of argv are C strings of MaxArgvChars characters in total, so a
\* character other than the terminator is read only while the terminators of
\* this element and of the elements after it still fit
Readable ==
  IF family = "words" THEN ReadableWords
  ELSE IF ctor = "argv" /\ CharsRead(MaxArgc) + 1 + (argc - i) > MaxArgvChars
  THEN {NUL}
  ELSE Chars \cup {NUL}

\* parse returns to the constructor that called it: the argv constructor
\* goes on with i++, the command-string constructor is finished
Return ==
  IF ctor = "argv" THEN i' = i + 1 /\ pc' = "loop" ELSE i' = i /\ pc' = "done"

\* one iteration of the while loop: the switch on st, then the end of line
\* handling and break, or else the two increments and the test of
\* len < max_length, which ends the loop without the end of line handling
Iteration(st, ch) ==
  LET fin == IF is_eol(ch) THEN Flush(st) ELSE st IN
  /\ mem' = [mem EXCEPT ![s] = Append(@, ch)]
  /\ ps_at' = [ps_at EXCEPT ![s] = Append(@, ps)]
  /\ ps' = fin.ps
  /\ token_start' = fin.token_start
  /\ key' = fin.key
  /\ a' = fin.a
  /\ opts' = fin.opts
  /\ IF is_eol(ch)
     THEN Return /\ UNCHANGED <<c, len>>
     ELSE /\ c' = c + 1 /\ len' = len + 1
          /\ IF len + 1 < max_length THEN pc' = "parse" /\ i' = i ELSE Return
  /\ UNCHANGED <<ctor, argc, family, ret, s, single_value>>

InLoop(state) == pc = "parse" /\ ps = state

ParseNone ==
  /\ InLoop("none")
  /\ \E ch \in Readable : Iteration(SwitchNone(Cur, ch), ch)

ParseKeyPrefix ==
  /\ InLoop("key_prefix")
  /\ \E ch \in Readable : Iteration(SwitchKeyPrefix(Cur, ch), ch)

ParseLongKeyPrefix ==
  /\ InLoop("long_key_prefix")
  /\ \E ch \in Readable : Iteration(SwitchLongKeyPrefix(Cur, ch), ch)

ParseKey ==
  /\ InLoop("key")
  /\ \E ch \in Readable : Iteration(SwitchKey(Cur, ch), ch)

ParseValue ==
  /\ InLoop("value")
  /\ \E ch \in Readable : Iteration(SwitchValue(Cur, ch), ch)

ParseQuotedValue ==
  /\ InLoop("quoted_value")
  /\ \E ch \in Readable : Iteration(SwitchQuotedValue(Cur, ch), ch)

\* parse(buf, sv) is entered: its locals are initialised
Call(buf, sv) ==
  /\ s' = buf /\ single_value' = sv
  /\ ps' = "none" /\ c' = 0 /\ token_start' = 0 /\ key' = NoView /\ len' = 0
  /\ pc' = "parse"

(* ---------------- the constructors ---------------- *)

\* mutant of FirstArg: the loop starts at the program name
FirstArg_ProgramName == 1 - 1

\* for (int i = 1; ...): the program name is skipped
FirstArg == 1

\* options(int argc, const CharT ** argv)
CtorArgv ==
  /\ pc = "start" /\ ctor = "argv"
  /\ i' = FirstArg /\ pc' = "loop"
  /\ UNCHANGED <<ctor, argc, family, ret, mem, ps_at, s, single_value, ps, c, token_start,
                 key, len, a, opts>>

\* i < argc: parse(argv[i], true)
ArgvNext ==
  /\ pc = "loop" /\ i < argc
  /\ Call(i, TRUE)
  /\ UNCHANGED <<ctor, argc, family, ret, mem, ps_at, i, a, opts>>

\* i < argc is false: the constructor returns
ArgvEnd ==
  /\ pc = "loop" /\ ~(i < argc)
  /\ pc' = "done"
  /\ UNCHANGED <<ctor, argc, family, ret, mem, ps_at, i, s, single_value, ps, c, token_start,
                 key, len, a, opts>>

\* options(const CharT * cmd_line): parse(cmd_line)
CtorCmd ==
  /\ pc = "start" /\ ctor = "cmd"
  /\ Call(0, FALSE)
  /\ UNCHANGED <<ctor, argc, family, ret, mem, ps_at, i, a, opts>>

(* ---------------- the accessors ---------------- *)

\* find_opt(k) for CharT = char: opts.find(k)
find_opt(k) == Find(opts, k)

has_opt(k) == find_opt(k) # {}

\* std::nullopt
nullopt == [has_value |-> FALSE, value |-> << >>]

\* std::optional holding v
Some(v) == [has_value |-> TRUE, value |-> v]

\* get_string(key)
get_string(k) ==
  IF find_opt(k) = {} THEN nullopt
  ELSE Some(Text((CHOOSE en \in find_opt(k) : TRUE).val))

\* mutant of get_string_or: an empty stored value yields the default
get_string_or_EmptyIsDefault(k, default_value) ==
  IF ~get_string(k).has_value \/ get_string(k).value = << >>
  THEN default_value ELSE get_string(k).value

\* get_string(key, default_value)
get_string_or(k, default_value) ==
  IF ~get_string(k).has_value THEN default_value ELSE get_string(k).value

true_values ==
  {<<"T", "R", "U", "E">>, <<"t", "r", "u", "e">>, <<"T">>,
   <<"Y", "E", "S">>, <<"y", "e", "s">>, <<"Y">>, <<"y">>, <<"1">>}

false_values ==
  {<<"F", "A", "L", "S", "E">>, <<"f", "a", "l", "s", "e">>, <<"F">>,
   <<"N", "O">>, <<"n", "o">>, <<"N">>, <<"n">>, <<"0">>}

\* mutant of get_bool: an empty value yields the default
get_bool_EmptyIsDefault(k, default_value) ==
  LET v == get_string(k) IN
  IF ~v.has_value \/ v.value = << >> THEN [threw |-> FALSE, value |-> default_value]
  ELSE IF v.value \in true_values THEN [threw |-> FALSE, value |-> TRUE]
  ELSE IF v.value \in false_values THEN [threw |-> FALSE, value |-> FALSE]
  ELSE [threw |-> TRUE, value |-> FALSE]

\* get_bool(key, default_value): the value returned, or threw for
\* std::invalid_argument
get_bool(k, default_value) ==
  LET v == get_string(k) IN
  IF ~v.has_value THEN [threw |-> FALSE, value |-> default_value]
  ELSE IF v.value = << >> THEN [threw |-> FALSE, value |-> TRUE]
  ELSE IF v.value \in true_values THEN [threw |-> FALSE, value |-> TRUE]
  ELSE IF v.value \in false_values THEN [threw |-> FALSE, value |-> FALSE]
  ELSE [threw |-> TRUE, value |-> FALSE]

Digits == {"0", "1", "2", "3", "4", "5", "6", "7", "8", "9"}

DigitValue(ch) ==
  CASE ch = "0" -> 0 [] ch = "1" -> 1 [] ch = "2" -> 2 [] ch = "3" -> 3
    [] ch = "4" -> 4 [] ch = "5" -> 5 [] ch = "6" -> 6 [] ch = "7" -> 7
    [] ch = "8" -> 8 [] ch = "9" -> 9

\* the end of the run of digits of txt that starts at position p (1-based)
RECURSIVE DigitsEnd(_, _)
DigitsEnd(txt, p) ==
  IF p <= Len(txt) /\ txt[p] \in Digits THEN DigitsEnd(txt, p + 1) ELSE p

\* the number written by the digits txt[p .. q-1]
RECURSIVE DigitsNumber(_, _, _)
DigitsNumber(txt, p, q) ==
  IF q <= p THEN 0 ELSE 10 * DigitsNumber(txt, p, q - 1) + DigitValue(txt[q - 1])

\* the first position p .. q-1 of txt that holds a digit other than 0, else q
RECURSIVE SkipZeros(_, _, _)
SkipZeros(txt, p, q) ==
  IF p < q /\ txt[p] = "0" THEN SkipZeros(txt, p + 1, q) ELSE p

\* std::from_chars(first, last, value) for int, base 10: an optional minus
\* sign, then the longest run of digits; what follows the digits is left
\* unread and is no error. The number is in the range of int when it has at
\* most 9 significant digits, or 10 that do not exceed 2147483647 (2147483648
\* after a minus sign)
from_chars(txt) ==
  LET neg == Len(txt) > 0 /\ txt[1] = "-"
      p == IF neg THEN 2 ELSE 1
      q == DigitsEnd(txt, p)
      z == SkipZeros(txt, p, q)
      high == DigitsNumber(txt, z, IF q - z = 10 THEN q - 1 ELSE q)
      low == DigitValue(txt[q - 1])
      fits == \/ q - z <= 9
              \/ /\ q - z = 10
                 /\ \/ high < 214748364
                    \/ high = 214748364 /\ low <= (IF neg THEN 8 ELSE 7)
      n == IF q - z = 10
           THEN (IF neg THEN (0 - 10 * high) - low ELSE 10 * high + low)
           ELSE (IF neg THEN 0 - high ELSE high)
  IN IF q = p THEN [ec |-> "invalid_argument", value |-> 0, ptr |-> 1]
     ELSE IF ~fits THEN [ec |-> "result_out_of_range", value |-> 0, ptr |-> q]
     ELSE [ec |-> "ok", value |-> n, ptr |-> q]

\* get_int(key): only r.ec is looked at, r.ptr is not
get_int(k) ==
  LET v == get_string(k) IN
  IF ~v.has_value THEN nullopt
  ELSE IF from_chars(v.value).ec = "ok" THEN Some(from_chars(v.value).value)
  ELSE nullopt

\* get_int(key, default_value)
get_int_or(k, default_value) ==
  IF get_int(k).has_value THEN get_int(k).value ELSE default_value

\* arg_count()
arg_count == Len(a)

\* get_required_string(key): the value returned, or threw for
\* std::out_of_range("option not provided")
get_required_string(k) ==
  LET v == get_string(k) IN
  IF ~v.has_value THEN [threw |-> "out_of_range", value |-> << >>]
  ELSE [threw |-> "none", value |-> v.value]

\* mutant of arg: the bound test is index > a.size(), and a[a.size()] reads as
\* an empty value
arg_AcceptsSize(index) ==
  IF index > Len(a) THEN [threw |-> "out_of_range", value |-> << >>]
  ELSE IF index = Len(a) THEN [threw |-> "none", value |-> << >>]
  ELSE [threw |-> "none", value |-> Text(a[index + 1])]

\* arg(index): a.at(index) throws std::out_of_range when index >= a.size()
arg(index) ==
  IF index >= Len(a) THEN [threw |-> "out_of_range", value |-> << >>]
  ELSE [threw |-> "none", value |-> Text(a[index + 1])]

\* args(): the positional values, in order
args == [j \in 1 .. Len(a) |-> Text(a[j])]

(* ---------------- calls on the constructed object ---------------- *)

\* mutant of AfterFind: the lookup is opts[key], which inserts an absent key
AfterFind_Inserts(o, k) ==
  IF Find(o, k) = {} THEN o \cup {[key |-> NoView, val |-> NoView]} ELSE o

\* the map after find_opt(k): opts.find(key) in a const member function
\* leaves the map as it is
AfterFind(o, k) == o

\* the keys looked up: k, t and u occur in the inputs made of words, x does not
LookupKeys == {<<"k">>, <<"t">>, <<"u">>, <<"x">>}

\* an accessor returns or throws: the object's members are const in it, the
\* map has been searched for k
Returns(fn, k, index, dflt, threw, value) ==
  /\ pc = "done"
  /\ ret' = [fn |-> fn, key |-> k, index |-> index, dflt |-> dflt,
             threw |-> threw, value |-> value]
  /\ opts' = AfterFind(opts, k)
  /\ a' = a
  /\ UNCHANGED <<ctor, argc, family, mem, ps_at, pc, i, s, single_value, ps, c,
                 token_start, key, len>>

\* an accessor that searches no key
ReturnsArg(fn, index, threw, value) ==
  /\ pc = "done"
  /\ ret' = [fn |-> fn, key |-> << >>, index |-> index, dflt |-> FALSE,
             threw |-> threw, value |-> value]
  /\ UNCHANGED <<ctor, argc, family, mem, ps_at, pc, i, s, single_value, ps, c,
                 token_start, key, len, a, opts>>

CallHasOpt ==
  \E k \in LookupKeys : Returns("has_opt", k, 0, FALSE, "none", has_opt(k))

CallGetString ==
  \E k \in LookupKeys : Returns("get_string", k, 0, FALSE, "none", get_string(k))

CallGetStringOr ==
  \E k \in LookupKeys : \E d \in {<<"d">>} :
    Returns("get_string_or", k, 0, d, "none", get_string_or(k, d))

CallGetRequiredString ==
  \E k \in LookupKeys :
    Returns("get_required_string", k, 0, FALSE, get_required_string(k).threw,
            get_required_string(k).value)

CallGetBool ==
  \E k \in LookupKeys : \E d \in BOOLEAN :
    Returns("get_bool", k, 0, d,
            IF get_bool(k, d).threw THEN "invalid_argument" ELSE "none",
            get_bool(k, d).value)

CallGetInt ==
  \E k \in LookupKeys : Returns("get_int", k, 0, FALSE, "none", get_int(k))

CallGetIntOr ==
  \E k \in LookupKeys : \E d \in {7} :
    Returns("get_int_or", k, 0, d, "none", get_int_or(k, d))

CallArg ==
  \E index \in 0 .. Len(a) + 1 :
    ReturnsArg("arg", index, arg(index).threw, arg(index).value)

CallArgCount == ReturnsArg("arg_count", 0, "none", arg_count)

CallArgs == ReturnsArg("args", 0, "none", args)

(* ---------------- strip_quotes ---------------- *)

\* *p for a pointer p into buffer buf; past the characters read it is the
\* terminator or a character that is not a quote
Deref(buf, p) == IF p + 1 \in 1 .. Len(mem[buf]) THEN mem[buf][p + 1] ELSE NUL

\* strip_quotes(s): b and e are moved as the code moves them, and the view
\* {b, e + 1} is returned
strip_quotes(v) ==
  LET b0 == v.b
      b1 == IF Deref(v.buf, b0) = "\"" /\ b0 # v.e THEN b0 + 1 ELSE b0
      e0 == v.e
      e1 == IF e0 # b1
            THEN IF Deref(v.buf, e0 - 1) = "\"" /\ e0 - 1 # b1 THEN e0 - 2 ELSE e0 - 1
            ELSE e0
  IN View(v.buf, b1, e1 + 1)

(* ---------------- the input as text ---------------- *)
(* What the claims say about tokens is stated on the characters read,      *)
(* mem[b], with 1-based positions, independently of the scanner's views.   *)

WS == {" ", "\t", "\r", "\n"}

\* the first position q..Len(txt) holding a character of stop, else Len(txt)+1
RECURSIVE RunEnd(_, _, _)
RunEnd(txt, q, stop) ==
  IF q > Len(txt) \/ txt[q] \in stop THEN q ELSE RunEnd(txt, q + 1, stop)

\* the buffer was scanned up to its terminator
Terminated(b) == Len(mem[b]) > 0 /\ mem[b][Len(mem[b])] = NUL

\* a dash at position p that the scanner meets between tokens
DashTokenAt(b, p) ==
  p \in 1 .. Len(mem[b]) /\ mem[b][p] = "-" /\ ps_at[b][p] = "none"

\* the key of the token whose first dash is at p: positions KeyFrom .. KeyTo-1
KeyFrom(b, p) ==
  IF p + 1 <= Len(mem[b]) /\ mem[b][p + 1] = "-" THEN p + 2 ELSE p + 1

KeyTo(b, p) ==
  LET ks == KeyFrom(b, p) IN
  IF ks > Len(mem[b]) \/ mem[b][ks] \in WS \cup {NUL} THEN ks
  ELSE RunEnd(mem[b], ks + 1, WS \cup {"=", NUL})

KeyText(b, p) == SubSeq(mem[b], KeyFrom(b, p), KeyTo(b, p) - 1)

\* key k occurs as the key of a token of buffer b starting at p
KeyOccursAt(b, p, k) == DashTokenAt(b, p) /\ KeyText(b, p) = k

\* a token -key or --key starts at p, delimited on the left, with a key that
\* is not empty and starts with neither a dash nor an equal sign
WellFormedKeyAt(b, p) ==
  /\ DashTokenAt(b, p)
  /\ p = 1 \/ mem[b][p - 1] \in WS
  /\ KeyTo(b, p) > KeyFrom(b, p)
  /\ mem[b][KeyFrom(b, p)] \notin {"-", "="}

\* a bare flag: the key is followed by whitespace or the terminator
FlagTokenAt(b, p) ==
  /\ WellFormedKeyAt(b, p)
  /\ KeyTo(b, p) <= Len(mem[b])
  /\ mem[b][KeyTo(b, p)] \in WS \cup {NUL}

\* the value after key= in multi-token mode: positions KeyTo+1 .. ValueTo-1
ValueTo(b, p) == RunEnd(mem[b], KeyTo(b, p) + 1, WS \cup {NUL})

ValueText(b, p) == SubSeq(mem[b], KeyTo(b, p) + 1, ValueTo(b, p) - 1)

\* a token -key=value or --key=value with an unquoted value, followed by
\* whitespace or the terminator
KeyValueTokenAt(b, p) ==
  /\ WellFormedKeyAt(b, p)
  /\ KeyTo(b, p) <= Len(mem[b])
  /\ mem[b][KeyTo(b, p)] = "="
  /\ ~(KeyTo(b, p) + 1 <= Len(mem[b]) /\ mem[b][KeyTo(b, p) + 1] = "\"")
  /\ ValueTo(b, p) <= Len(mem[b])

Positions(b) == 1 .. Len(mem[b])

CmdDone == pc = "done" /\ ctor = "cmd"

(* ---------------- the claims ---------------- *)

\* C1: in multi-token mode, a token -key=value or --key=value (key not empty,
\* not starting with a dash, without whitespace or '='; value unquoted,
\* without whitespace; the token delimited by whitespace or the end of the
\* input) whose key does not occur again later gives has_opt(key) and
\* get_string(key) = value once the constructor has returned.
C1_KeyValueStored ==
  CmdDone =>
    \A p \in Positions(0) :
      ( /\ KeyValueTokenAt(0, p)
        /\ \A q \in Positions(0) : q > p => ~KeyOccursAt(0, q, KeyText(0, p)) )
      => /\ has_opt(KeyText(0, p))
         /\ get_string(KeyText(0, p)) = Some(ValueText(0, p))

\* C1 witness: a -key=value token with a value that is not empty, not at the
\* start of the input, has been parsed
C1_Witness ==
  /\ CmdDone
  /\ \E p \in Positions(0) :
       /\ p > 1
       /\ KeyValueTokenAt(0, p)
       /\ ValueText(0, p) # << >>
       /\ \A q \in Positions(0) : q > p => ~KeyOccursAt(0, q, KeyText(0, p))


\* C2: duplicate keys, last occurrence wins: when every occurrence of a key
\* is a token -key=value or a bare flag, get_string(key) is the value of the
\* last occurrence, the empty string when that one is a bare flag.
C2_LastOccurrenceWins ==
  CmdDone =>
    \A p \in Positions(0) :
      ( /\ FlagTokenAt(0, p) \/ KeyValueTokenAt(0, p)
        /\ \A q \in Positions(0) :
             KeyOccursAt(0, q, KeyText(0, p)) =>
               /\ q <= p
               /\ FlagTokenAt(0, q) \/ KeyValueTokenAt(0, q) )
      => get_string(KeyText(0, p)) =
           Some(IF FlagTokenAt(0, p) THEN << >> ELSE ValueText(0, p))

\* the scan of the command string ended at the length bound, no terminator met
BoundStop == CmdDone /\ len = max_length /\ ~Terminated(0)

\* C3: when the scan stops at the length bound, the token in progress is
\* flushed as at a terminator: a key in progress is recorded as a flag, a
\* value in progress is stored under the pending key or as a positional
\* argument, a quoted value in progress is stored.
C3_FlushAtBound ==
  BoundStop =>
    /\ (ps = "key" /\ token_start < c)
         => has_opt(Text(View(0, token_start, c)))
    /\ (ps = "value" /\ Size(key) > 0)
         => get_string(Text(key)) = Some(Text(View(0, token_start, c)))
    /\ (ps = "value" /\ Size(key) = 0 /\ c > token_start)
         => a # << >> /\ a[Len(a)] = View(0, token_start, c)
    /\ (ps = "quoted_value" /\ Size(key) > 0)
         => get_string(Text(key)) = Some(Text(View(0, token_start + 1, c)))
    /\ (ps = "quoted_value" /\ Size(key) = 0)
         => a # << >> /\ a[Len(a)] = View(0, token_start + 1, c)

\* C4: a bare flag -key or --key whose key occurs nowhere else gives
\* has_opt(key), get_string(key) = "" and get_bool(key, d) = true for
\* d = false and for d = true.
C4_BareFlag ==
  pc = "done" =>
    \A b \in Buffers : \A p \in Positions(b) :
      ( /\ FlagTokenAt(b, p)
        /\ \A b2 \in Buffers : \A q \in Positions(b2) :
             KeyOccursAt(b2, q, KeyText(b, p)) => (b2 = b /\ q = p) )
      => /\ has_opt(KeyText(b, p))
         /\ get_string(KeyText(b, p)) = Some(<< >>)
         /\ get_bool(KeyText(b, p), FALSE) = [threw |-> FALSE, value |-> TRUE]
         /\ get_bool(KeyText(b, p), TRUE) = [threw |-> FALSE, value |-> TRUE]

\* C4 witness: a bare flag ended by the terminator has been parsed after
\* another token
C4_Witness ==
  /\ pc = "done"
  /\ \E b \in Buffers : \E p \in Positions(b) :
       /\ p > 1
       /\ FlagTokenAt(b, p)
       /\ mem[b][KeyTo(b, p)] = NUL
       /\ a # << >>
       /\ \A b2 \in Buffers : \A q \in Positions(b2) :
            KeyOccursAt(b2, q, KeyText(b, p)) => (b2 = b /\ q = p)

\* the closing quote of the quoted text whose opening quote is at position p
CloseQuote(b, p) == RunEnd(mem[b], p + 1, {"\"", NUL})

Closed(b, p) == CloseQuote(b, p) <= Len(mem[b]) /\ mem[b][CloseQuote(b, p)] = "\""

QuotedBody(b, p) == SubSeq(mem[b], p + 1, CloseQuote(b, p) - 1)

\* a token "body" starts at p, between tokens and delimited on the left
QuotedTokenAt(b, p) ==
  /\ p \in Positions(b) /\ mem[b][p] = "\"" /\ ps_at[b][p] = "none"
  /\ p = 1 \/ mem[b][p - 1] \in WS
  /\ Closed(b, p)

\* a token -key="body" or --key="body" starts at p
KeyQuotedTokenAt(b, p) ==
  /\ WellFormedKeyAt(b, p)
  /\ KeyTo(b, p) + 1 <= Len(mem[b])
  /\ mem[b][KeyTo(b, p)] = "="
  /\ mem[b][KeyTo(b, p) + 1] = "\""
  /\ Closed(b, KeyTo(b, p) + 1)

\* the positional arguments whose span starts at positions from .. to (1-based)
ArgsWithin(b, from, to) ==
  {j \in DOMAIN a : a[j].buf = b /\ a[j].b + 1 >= from /\ a[j].b + 1 <= to}

\* C5: in multi-token mode a token "body" is appended as exactly one
\* positional argument whose span is body, both quotes left out; a token
\* -key="body" stores body under key and appends nothing; whitespace in body
\* does not split the token.
C5_QuotedToken ==
  CmdDone =>
    \A p \in Positions(0) :
      /\ QuotedTokenAt(0, p) =>
           /\ \E j \in DOMAIN a :
                /\ a[j] = View(0, p, CloseQuote(0, p) - 1)
                /\ Text(a[j]) = QuotedBody(0, p)
                /\ ArgsWithin(0, p, CloseQuote(0, p)) = {j}
           /\ \A en \in opts :
                ~(en.val.buf = 0 /\ en.val.b + 1 >= p /\ en.val.b + 1 <= CloseQuote(0, p))
      /\ ( /\ KeyQuotedTokenAt(0, p)
           /\ \A q \in Positions(0) : q > p => ~KeyOccursAt(0, q, KeyText(0, p)) )
         => /\ get_string(KeyText(0, p)) = Some(QuotedBody(0, KeyTo(0, p) + 1))
            /\ ArgsWithin(0, p, CloseQuote(0, KeyTo(0, p) + 1)) = {}

\* C5 witness: an option value in quotes with whitespace in its body has
\* been parsed after the state machine stored it at the closing quote
C5_Witness ==
  /\ CmdDone
  /\ \E p \in Positions(0) :
       /\ KeyQuotedTokenAt(0, p)
       /\ \E w \in 1 .. Len(QuotedBody(0, KeyTo(0, p) + 1)) :
            QuotedBody(0, KeyTo(0, p) + 1)[w] \in WS
       /\ get_string(KeyText(0, p)) = Some(QuotedBody(0, KeyTo(0, p) + 1))

\* a complete base-10 integer: an optional sign, then digits and nothing else
IsCompleteInt(txt) ==
  LET p == IF Len(txt) > 0 /\ txt[1] \in {"-", "+"} THEN 2 ELSE 1 IN
  /\ Len(txt) >= p
  /\ \A q \in p .. Len(txt) : txt[q] \in Digits

\* C6: get_int(key) returns an integer only when the whole stored value is a
\* complete base-10 integer; for an absent key and for a value that is empty,
\* not numeric or has anything after its digits, get_int(key) is not-found
\* and get_int(key, default) is default.
C6_GetIntWholeValue ==
  pc = "done" =>
    /\ \A en \in opts :
         ~IsCompleteInt(Text(en.val)) =>
           /\ get_int(Text(en.key)) = nullopt
           /\ get_int_or(Text(en.key), 7) = 7
    /\ \A k \in {<<"1">>, <<"1", "1">>} :
         ~has_opt(k) => get_int(k) = nullopt /\ get_int_or(k, 7) = 7

\* every view [b, e) into the characters read from buffer buf
ViewsOf(buf) ==
  UNION {{View(buf, b, e) : e \in b .. Len(mem[buf])} : b \in 0 .. Len(mem[buf])}

\* txt without one leading quote, and then without one trailing quote
StripOne(txt) ==
  LET t1 == IF Len(txt) > 0 /\ txt[1] = "\"" THEN SubSeq(txt, 2, Len(txt)) ELSE txt
  IN IF Len(t1) > 0 /\ t1[Len(t1)] = "\"" THEN SubSeq(t1, 1, Len(t1) - 1) ELSE t1

\* C7: strip_quotes(s) is s without one leading quote, if it starts with one,
\* and without one trailing quote, if what remains ends with one; the view
\* returned lies inside s, for the empty view, for a lone quote and for two
\* quotes as well.
C7_StripQuotes ==
  CmdDone =>
    \A v \in ViewsOf(0) :
      /\ v.b <= strip_quotes(v).b
      /\ strip_quotes(v).b <= strip_quotes(v).e
      /\ strip_quotes(v).e <= v.e
      /\ Text(strip_quotes(v)) = StripOne(Text(v))


\* C8: positional arguments are in encounter order and the list is only
\* appended to: for j < k, a[j] comes from an earlier argv element than a[k],
\* or from the same one and ends before a[k] starts; each step leaves the
\* elements already in the list where they are.
C8_ArgsInOrder ==
  /\ [](\A j, k \in DOMAIN a :
          j < k => \/ a[j].buf < a[k].buf
                   \/ a[j].buf = a[k].buf /\ a[j].b <= a[j].e /\ a[j].e <= a[k].b)
  /\ [][Len(a) <= Len(a') /\ SubSeq(a', 1, Len(a)) = a]_vars

\* C8 witness: two positional arguments have been stored, the second one at
\* the terminator
C8_Witness == pc = "done" /\ Len(a) >= 2 /\ a[Len(a)].e = c

\* the argv element e has just been scanned up to its terminator
JustParsed(e) == ctor = "argv" /\ pc = "loop" /\ i = e + 1 /\ Terminated(e)

\* the characters of buffer b before its terminator
Element(b) == SubSeq(mem[b], 1, Len(mem[b]) - 1)

\* the element starts with a character that begins an unquoted value
BareStart(b) == Len(mem[b]) > 1 /\ mem[b][1] \notin WS \cup {"-", "\"", NUL}

\* C9: in single-value mode whitespace does not end an unquoted value: the
\* scanner stays in state value, an element -key=v stores the whole rest of
\* the element after '=' as the value of key, and an element that starts as a
\* bare unquoted token becomes one positional argument, whitespace included;
\* in multi-token mode the same text is cut at its first whitespace.
C9_SingleValueMode ==
  /\ ctor = "argv" =>
       \A e \in Buffers : \A p \in Positions(e) :
         (ps_at[e][p] = "value" /\ mem[e][p] \in WS /\ p < Len(ps_at[e]))
           => ps_at[e][p + 1] = "value"
  /\ \A e \in Buffers :
       JustParsed(e) =>
         /\ ( /\ WellFormedKeyAt(e, 1)
              /\ KeyTo(e, 1) <= Len(mem[e])
              /\ mem[e][KeyTo(e, 1)] = "="
              /\ mem[e][KeyTo(e, 1) + 1] # "\"" )
            => get_string(KeyText(e, 1)) =
                 Some(SubSeq(mem[e], KeyTo(e, 1) + 1, Len(mem[e]) - 1))
         /\ BareStart(e) =>
              /\ a # << >>
              /\ a[Len(a)] = View(e, 0, Len(mem[e]) - 1)
              /\ Text(a[Len(a)]) = Element(e)
              /\ ArgsWithin(e, 1, Len(mem[e])) = {Len(a)}
              /\ \A en \in opts : en.val.buf # e
  /\ (CmdDone /\ BareStart(0) /\ RunEnd(mem[0], 1, WS) <= Len(mem[0])) =>
       /\ a # << >>
       /\ a[1] = View(0, 0, RunEnd(mem[0], 1, WS) - 1)

\* C9 witness: an argv element -key=v whose v holds whitespace has been parsed
C9_Witness ==
  \E e \in Buffers :
    /\ JustParsed(e)
    /\ WellFormedKeyAt(e, 1)
    /\ KeyTo(e, 1) <= Len(mem[e])
    /\ mem[e][KeyTo(e, 1)] = "="
    /\ mem[e][KeyTo(e, 1) + 1] # "\""
    /\ \E p \in KeyTo(e, 1) + 1 .. Len(mem[e]) : mem[e][p] \in WS
    /\ get_string(KeyText(e, 1)) = Some(SubSeq(mem[e], KeyTo(e, 1) + 1, Len(mem[e]) - 1))

\* C10: the argv constructor never reads element 0 and stores nothing from
\* it; it parses elements 1 .. argc-1 in order, each to its end before the
\* next, each in single-value mode and each starting in state none with no
\* pending key, so that a value is only stored under a key of its own element;
\* argc <= 1 gives an empty map and an empty list.
C10_ArgvConstructor ==
  ctor = "argv" =>
    /\ mem[0] = << >>
    /\ \A j \in DOMAIN a : a[j].buf >= 1
    /\ \A en \in opts :
         /\ en.key.buf >= 1
         /\ en.val # NoView =>
              /\ en.val.buf >= 1
              /\ \E p \in Positions(en.val.buf) :
                   KeyOccursAt(en.val.buf, p, Text(en.key))
    /\ pc = "parse" =>
         /\ s = i /\ single_value /\ 1 <= i /\ i < argc
         /\ \A b \in Buffers : (b > i => mem[b] = << >>)
                            /\ (1 <= b /\ b < i => Terminated(b))
         /\ len = 0 => (ps = "none" /\ key = NoView /\ c = 0 /\ token_start = 0)
    /\ pc = "done" =>
         /\ \A b \in Buffers : (b >= argc => mem[b] = << >>)
                            /\ (1 <= b /\ b < argc => Len(mem[b]) > 0)
         /\ argc <= 1 => (opts = {} /\ a = << >>)

\* C10 witness: argv = {program, "-key=", "v"} has been parsed: key has the
\* empty value and v is the one positional argument
C10_Witness ==
  /\ ctor = "argv" /\ pc = "done" /\ argc = 3
  /\ WellFormedKeyAt(1, 1)
  /\ Len(mem[1]) = KeyTo(1, 1) + 1
  /\ mem[1][KeyTo(1, 1)] = "="
  /\ BareStart(2)
  /\ get_string(KeyText(1, 1)) = Some(<< >>)
  /\ Len(a) = 1 /\ Text(a[1]) = Element(2)


(* ---------------- the flush at the terminator ---------------- *)

\* this step reads the terminator of the buffer being scanned
AtTerminator == pc = "parse" /\ Terminated(s)'

\* the entries of map o whose key is not k
Others(o, k) == {en \in o : Text(en.key) # k}

\* map o2 is map o with text v stored under key k, nothing else changed
StoredUnder(o, o2, k, v) ==
  /\ Others(o2, k) = Others(o, k)
  /\ \E en \in o2 : Text(en.key) = k /\ Text(en.val) = v
  /\ Cardinality(o2 \ Others(o2, k)) = 1

\* what the step that reads the terminator stores, by the state the scanner
\* is in when it reads it
FlushStores ==
  LET tok == View(s, token_start, c)
      body == View(s, token_start + 1, c)
  IN CASE ps \in {"none", "key_prefix", "long_key_prefix"} ->
            a' = a /\ opts' = opts
       [] ps = "key" ->
            /\ Size(tok) > 0
            /\ a' = a /\ StoredUnder(opts, opts', Text(tok), << >>)
       [] ps = "value" /\ Size(key) > 0 ->
            a' = a /\ StoredUnder(opts, opts', Text(key), Text(tok))
       [] ps = "value" /\ Size(key) = 0 ->
            /\ opts' = opts
            /\ a' = IF Size(tok) > 0 THEN Append(a, tok) ELSE a
       [] ps = "quoted_value" /\ Size(key) > 0 ->
            a' = a /\ StoredUnder(opts, opts', Text(key), Text(body))
       [] ps = "quoted_value" /\ Size(key) = 0 ->
            opts' = opts /\ a' = Append(a, body)

\* C15: when the scan meets the terminator, a key in progress is recorded as
\* an option with empty value; an unquoted value in progress is stored under
\* the pending key if there is one, and otherwise appended as a positional
\* argument only if it is not empty; an unterminated quoted value is stored
\* without its opening quote, keyed or positional, even when its body is
\* empty; in states none, key_prefix and long_key_prefix nothing is stored;
\* nothing else is stored at the terminator.
C15_FlushAtTerminator == [][AtTerminator => FlushStores]_vars

(* ---------------- empty values ---------------- *)

\* the token at p of buffer b comes before the token at q of buffer b2
Before(b, p, b2, q) == b < b2 \/ (b = b2 /\ p < q)

\* the key of the token at p of buffer b is the key of no later token
LastOccurrence(b, p) ==
  \A b2 \in Buffers : \A q \in Positions(b2) :
    KeyOccursAt(b2, q, KeyText(b, p)) => ~Before(b, p, b2, q)

\* a token -key= or --key= starts at p, and after the equal sign at eq comes
\* what ends the token: the terminator, or whitespace in multi-token mode
EmptyValueAt(b, eq) ==
  /\ eq + 1 <= Len(mem[b])
  /\ mem[b][eq] = "="
  /\ mem[b][eq + 1] \in (IF b = 0 THEN WS ELSE {}) \cup {NUL}

\* after the equal sign at eq comes the empty quoted value ""
EmptyQuotedAt(b, eq) ==
  /\ eq + 2 <= Len(mem[b])
  /\ mem[b][eq] = "="
  /\ mem[b][eq + 1] = "\"" /\ mem[b][eq + 2] = "\""

\* free standing value j is what a quoted token holds between its quotes
FromQuotedToken(j) ==
  LET q == a[j].b IN
  /\ q >= 1
  /\ mem[a[j].buf][q] = "\"" /\ ps_at[a[j].buf][q] = "none"
  /\ q + 1 <= Len(mem[a[j].buf]) /\ ps_at[a[j].buf][q + 1] = "quoted_value"

\* C16: no positional argument made from an unquoted token is empty, in both
\* modes, whether the token ends at whitespace or at the end of input; an
\* empty quoted token "" is kept, as an empty positional argument when no key
\* is pending and as an empty option value after key=; -key= or --key=
\* followed by whitespace or the end of input stores key with an empty value
\* and appends no positional argument.
C16_EmptyValues ==
  pc \in {"loop", "done"} =>
    /\ \A j \in DOMAIN a : Size(a[j]) = 0 => FromQuotedToken(j)
    /\ \A b \in Buffers : \A p \in Positions(b) :
         /\ (QuotedTokenAt(b, p) /\ CloseQuote(b, p) = p + 1)
              => \E j \in DOMAIN a : a[j] = View(b, p, p)
         /\ WellFormedKeyAt(b, p) =>
              LET eq == KeyTo(b, p) IN
              /\ (EmptyQuotedAt(b, eq) /\ LastOccurrence(b, p))
                   => /\ get_string(KeyText(b, p)) = Some(<< >>)
                      /\ ArgsWithin(b, p, eq + 2) = {}
              /\ (EmptyValueAt(b, eq) /\ LastOccurrence(b, p))
                   => /\ get_string(KeyText(b, p)) = Some(<< >>)
                      /\ ArgsWithin(b, p, eq + 1) = {}

\* the command string -1= "" has been parsed: key 1 has an empty value, the
\* only positional argument is the empty one of the quoted token
C16_Witness ==
  /\ CmdDone /\ Terminated(0)
  /\ WellFormedKeyAt(0, 1) /\ EmptyValueAt(0, KeyTo(0, 1))
  /\ mem[0][KeyTo(0, 1) + 1] \in WS
  /\ \E p \in Positions(0) : QuotedTokenAt(0, p) /\ CloseQuote(0, p) = p + 1
  /\ Len(a) = 1 /\ Size(a[1]) = 0
  /\ \E en \in opts : Size(en.val) = 0

(* ---------------- the bounded scan ---------------- *)

\* what has been read of every buffer: at most max_length characters, the
\* terminator only as the last of them; while parse runs, the next character
\* it reads is the one after those read so far, at an index below max_length;
\* parse and the constructors end in no state but done
C17_Scan ==
  /\ \A b \in Buffers :
       /\ Len(mem[b]) <= max_length
       /\ \A q \in 1 .. Len(mem[b]) - 1 : mem[b][q] # NUL
  /\ pc = "parse" => c = Len(mem[s]) /\ len = c /\ len < max_length /\ ~Terminated(s)
  /\ pc \in {"start", "loop", "parse", "done"}

\* an iteration of parse reads one character, of the buffer it scans, and
\* goes on with the next one or returns
C17_Step ==
  pc = "parse" =>
    /\ Len(mem'[s]) = Len(mem[s]) + 1
    /\ SubSeq(mem'[s], 1, Len(mem[s])) = mem[s]
    /\ \A b \in Buffers \ {s} : mem'[b] = mem[b]
    /\ pc' = "parse" => s' = s /\ c' = c + 1

\* C17: parse terminates after examining at most max_length characters of a
\* buffer, terminated or not; it examines each character at most once, in
\* increasing order of position, stops at the first terminator, reads no
\* character after the first terminator or at an index >= max_length, and
\* signals no parse error.
C17_BoundedScan == []C17_Scan /\ [][C17_Step]_vars /\ <>(pc = "done")

\* the scan of a command string has stopped at the bound, no terminator read
C17_Witness ==
  CmdDone /\ Len(mem[0]) = max_length /\ ~Terminated(0)

(* ---------------- keys ---------------- *)

\* the token whose first dash is at p has an equal sign right after its dash
\* prefix
EqualSignFirstAt(b, p) ==
  /\ DashTokenAt(b, p)
  /\ KeyFrom(b, p) <= Len(mem[b])
  /\ mem[b][KeyFrom(b, p)] = "="

\* C18: the option map never holds the empty string as a key, in either mode,
\* whatever the input (--=value, -=value, -, --, -- x, --= included): every
\* key has length >= 1; an equal sign right after the dash prefix is the
\* first character of the key and does not close an empty key.
C18_NoEmptyKey ==
  /\ \A en \in opts : Size(en.key) >= 1
  /\ pc \in {"loop", "done"} =>
       \A b \in Buffers : \A p \in Positions(b) :
         (EqualSignFirstAt(b, p) /\ Terminated(b))
           => /\ has_opt(KeyText(b, p))
              /\ KeyText(b, p)[1] = "="

\* a command string that starts with -== or --== has been parsed: its key is
\* the first equal sign, the second one ends the key
C18_Witness ==
  /\ CmdDone /\ Terminated(0)
  /\ EqualSignFirstAt(0, 1) /\ mem[0][KeyTo(0, 1)] = "="
  /\ KeyText(0, 1) = <<"=">> /\ has_opt(<<"=">>)

(* ---------------- the pending key ---------------- *)

\* the value of entry en was written right after its key: the characters
\* before the value are the key and an equal sign, then the opening quote
\* when the value is quoted
Attached(en) ==
  LET txt == mem[en.val.buf]
      n == Size(en.key)
  IN \E d \in {0, 1} :
       /\ en.val.b - d - n >= 1
       /\ d = 1 => txt[en.val.b] = "\""
       /\ txt[en.val.b - d] = "="
       /\ SubSeq(txt, en.val.b - d - n, en.val.b - d - 1) = Text(en.key)
       /\ ps_at[en.val.buf][en.val.b - d] = "key"

\* C19: wherever the scanner examines a character, the pending key is not
\* empty only in states value and quoted_value; in states none, key_prefix,
\* long_key_prefix and key it is empty, so that the branch of state none
\* that records a pending key on a dash does not fire, and a stored value is
\* never attached to the key of an earlier, completed token.
C19_PendingKey ==
  /\ (pc = "parse" /\ ps \in {"none", "key_prefix", "long_key_prefix", "key"})
       => Size(key) = 0
  /\ (pc = "parse" /\ Size(key) > 0)
       => /\ ps \in {"value", "quoted_value"}
          /\ key.buf = s /\ key.e >= 1 /\ mem[s][key.e + 1] = "="
          /\ token_start = key.e + 1
  /\ \A en \in opts : en.val # NoView => Attached(en)

\* the scanner is between tokens, after a token key=value that was stored
\* and before a free standing value: no key is pending
C19_Witness ==
  /\ pc = "parse" /\ ps = "none" /\ Size(key) = 0
  /\ \E en \in opts : Size(en.val) > 0 /\ en.val.e = c - 1
  /\ c >= 1 /\ mem[s][c] \in WS

(* ---------------- stored spans ---------------- *)

\* a range [b, e) of a buffer with b <= e, within the characters examined:
\* e is at most the position of the terminator and at most max_length
WellFormedSpan(v) ==
  /\ v.buf \in Buffers
  /\ 0 <= v.b /\ v.b <= v.e
  /\ v.e <= Len(mem[v.buf]) /\ v.e <= max_length
  /\ Terminated(v.buf) => v.e <= Len(mem[v.buf]) - 1

\* C20: every span stored by parse, key, option value or positional
\* argument, is a half-open range [start, end) with start <= end that lies
\* within the examined part of the input buffer: end is at most the position
\* of the terminator and at most max_length, for every input in both modes,
\* unterminated quotes, a lone quote at the end and key= at the end included.
C20_StoredSpans ==
  /\ \A en \in opts :
       /\ WellFormedSpan(en.key)
       /\ en.val # NoView => WellFormedSpan(en.val)
  /\ \A j \in DOMAIN a : WellFormedSpan(a[j])

\* a lone quote at the end of a command string has been stored as an empty
\* positional argument, after an option
C20_Witness ==
  /\ CmdDone /\ Terminated(0) /\ opts # {}
  /\ Len(mem[0]) >= 2 /\ mem[0][Len(mem[0]) - 1] = "\""
  /\ a # << >> /\ a[Len(a)] = View(0, Len(mem[0]) - 1, Len(mem[0]) - 1)

(* ---------------- the accessors, called on the constructed object ------- *)

\* the text stored for key k in the map
StoredText(k) == Text((CHOOSE en \in opts : Text(en.key) = k).val)

\* key k is in the map
Stored(k) == \E en \in opts : Text(en.key) = k

C11_True ==
  {<<"T", "R", "U", "E">>, <<"t", "r", "u", "e">>, <<"T">>,
   <<"Y", "E", "S">>, <<"y", "e", "s">>, <<"Y">>, <<"y">>, <<"1">>}

C11_False ==
  {<<"F", "A", "L", "S", "E">>, <<"f", "a", "l", "s", "e">>, <<"F">>,
   <<"N", "O">>, <<"n", "o">>, <<"N">>, <<"n">>, <<"0">>}

\* C11: get_bool(key, default) returns default when the key is absent, for
\* both defaults; true when the stored value is empty or one of TRUE, true, T,
\* YES, yes, Y, y, 1; false when it is one of FALSE, false, F, NO, no, N, n, 0;
\* and raises the unrecognized-literal error for every other non-empty value,
\* the comparison being case-sensitive.
C11_GetBool ==
  ret.fn = "get_bool" =>
    IF ~Stored(ret.key)
    THEN ret.threw = "none" /\ ret.value = ret.dflt
    ELSE IF StoredText(ret.key) = << >> \/ StoredText(ret.key) \in C11_True
    THEN ret.threw = "none" /\ ret.value = TRUE
    ELSE IF StoredText(ret.key) \in C11_False
    THEN ret.threw = "none" /\ ret.value = FALSE
    ELSE ret.threw = "invalid_argument"

\* get_bool has raised for the stored value True, which differs from a known
\* literal by case only
C11_Witness ==
  /\ ret.fn = "get_bool" /\ ret.threw = "invalid_argument"
  /\ Stored(ret.key) /\ StoredText(ret.key) = <<"T", "r", "u", "e">>

\* C12: the string lookups agree with has_opt: get_string(key) is not-found
\* exactly when has_opt(key) is false; get_string(key, default) returns the
\* default exactly when the key is absent, and a stored empty value is
\* returned as empty; get_required_string(key) raises the missing-option
\* error exactly when the key is absent and returns what get_string returns
\* otherwise.
C12_StringLookups ==
  /\ ret.fn = "has_opt" => ret.value = Stored(ret.key)
  /\ ret.fn = "get_string" =>
       /\ ret.value.has_value <=> has_opt(ret.key)
       /\ has_opt(ret.key) => ret.value.value = StoredText(ret.key)
  /\ ret.fn = "get_string_or" =>
       ret.value = IF has_opt(ret.key) THEN StoredText(ret.key) ELSE ret.dflt
  /\ ret.fn = "get_required_string" =>
       /\ ret.threw = "out_of_range" <=> ~has_opt(ret.key)
       /\ has_opt(ret.key) =>
            /\ ret.threw = "none"
            /\ ret.value = StoredText(ret.key)
            /\ ret.value = get_string(ret.key).value

\* get_string(key, default) has returned the empty value stored for a key
C12_Witness ==
  /\ ret.fn = "get_string_or" /\ has_opt(ret.key)
  /\ StoredText(ret.key) = << >> /\ ret.value = << >> /\ ret.dflt # << >>

\* C13: arg(index) returns the index-th free standing value, counted from 0
\* in input order, for index < arg_count(), and raises the out-of-range error
\* for index >= arg_count(), index 0 of an empty list included; arg_count()
\* is the length of args().
C13_PositionalAccess ==
  /\ ret.fn = "arg" =>
       IF ret.index < Len(a)
       THEN ret.threw = "none" /\ ret.value = Text(a[ret.index + 1])
       ELSE ret.threw = "out_of_range"
  /\ ret.fn = "arg_count" => ret.value = Len(args)
  /\ ret.fn = "args" =>
       /\ Len(ret.value) = arg_count
       /\ \A j \in 1 .. Len(a) : ret.value[j] = Text(a[j])

\* arg(0) has raised on an object with no free standing value
C13_Witness ==
  ret.fn = "arg" /\ ret.index = 0 /\ Len(a) = 0 /\ ret.threw = "out_of_range"

\* arg(1) has returned the second of two free standing values
C13_Second ==
  /\ ret.fn = "arg" /\ ret.index = 1 /\ Len(a) = 2 /\ ret.threw = "none"
  /\ ret.value = <<"q">> /\ Text(a[1]) = <<"p">>

\* C14: once constructed the object is immutable: every accessor call, the
\* ones that raise included, leaves the option map and the list of free
\* standing values as they were; looking up an absent key does not insert it.
C14_AccessorsFrame ==
  [][pc = "done" =>
       /\ opts' = opts
       /\ a' = a
       /\ \A k \in LookupKeys : ~has_opt(k) => ~has_opt(k)']_vars

\* an accessor has raised for an absent key on an object that holds an option
\* and a free standing value, and the key is still absent
C14_Witness ==
  /\ ret.fn = "get_required_string" /\ ret.threw = "out_of_range"
  /\ ~has_opt(ret.key) /\ opts # {} /\ Len(a) > 0

\* no accessor has been called
NoCall ==
  [fn |-> "none", key |-> << >>, index |-> 0, dflt |-> FALSE, threw |-> "none",
   value |-> FALSE]

\* the program before the constructor runs, given the inputs and the number
\* of argv elements
Start(fam, argcs) ==
  /\ family = fam
  /\ ret = NoCall
  /\ ctor \in {"argv", "cmd"}
  /\ argc \in IF ctor = "argv" THEN argcs ELSE {0}
  /\ mem = [b \in Buffers |-> << >>]
  /\ ps_at = [b \in Buffers |-> << >>]
  /\ pc = "start"
  /\ i = 0 /\ s = 0 /\ single_value = FALSE
  /\ ps = "none" /\ c = 0 /\ token_start = 0 /\ key = NoView /\ len = 0
  /\ a = << >>
  /\ opts = {}

Init == Start("any", 0 .. MaxArgc)

Next ==
  \/ CtorArgv \/ ArgvNext \/ ArgvEnd \/ CtorCmd
  \/ ParseNone \/ ParseKeyPrefix \/ ParseLongKeyPrefix \/ ParseKey
  \/ ParseValue \/ ParseQuotedValue

Spec == Init /\ [][Next]_vars

\* the constructor, once called, runs: no step of it waits for anything
SpecFair == Spec /\ WF_vars(Next)

\* the constructor runs on an input made of words, then the accessors are
\* called on the constructed object, any number of times in any order
InitAccess == Start("words", 0 .. MaxWords + 1)

NextAccess ==
  \/ CtorArgv \/ ArgvNext \/ ArgvEnd \/ CtorCmd
  \/ ParseNone \/ ParseKeyPrefix \/ ParseLongKeyPrefix \/ ParseKey
  \/ ParseValue \/ ParseQuotedValue
  \/ CallHasOpt \/ CallGetString \/ CallGetStringOr \/ CallGetRequiredString
  \/ CallGetBool \/ CallGetInt \/ CallGetIntOr
  \/ CallArg \/ CallArgCount \/ CallArgs

SpecAccess == InitAccess /\ [][NextAccess]_vars

====
